---- MODULE Spec2Model ----
(***************************************************************************)
(* Task-then-motion planning with greedy execution.                        *)
(*                                                                         *)
(* The model follows src/src/task_then_motion_planning/planning.py (the    *)
(* TaskThenMotionPlanner cursor: remaining task plan, current operator,    *)
(* current skill) and src/src/task_then_motion_planning/structs.py (Skill, *)
(* LiftedOperatorSkill, Perceiver).  The taxi domain, its perceiver, its   *)
(* skills and the driving loop come from src/tests/test_planning.py.       *)
(***************************************************************************)
EXTENDS Integers, Sequences, FiniteSets, TLC

VARIABLES
    skills,                 \* _skills: each registered skill and the lifted operator it is bound to
    current_problem,        \* _current_problem
    current_task_plan,      \* _current_task_plan
    current_operator,       \* _current_operator
    current_skill,          \* _current_skill
    current_ground_operator,\* Skill._current_ground_operator, one per skill
    result,                 \* what the last call (reset or step) did and returned
    stored_plan,            \* history: the plan stored by the last successful reset
    activated,              \* history: the operators assigned to _current_operator since then
    taxi                    \* the taxi world and the TaxiSkill action queues of the test

vars == <<skills, current_problem, current_task_plan, current_operator, current_skill,
          current_ground_operator, result, stored_plan, activated, taxi>>

(***************************************************************************)
(* Bounds.                                                                 *)
(***************************************************************************)
MaxPlanLen == 2
GridMax == 3

(***************************************************************************)
(* The domain of the test: objects, predicates, lifted operators.          *)
(***************************************************************************)
Destinations == {"destA", "destB"}

TaxiEmpty(t) == <<"TaxiEmpty", t>>
InTaxi(p, t) == <<"InTaxi", p, t>>
AtDestination(p, d) == <<"AtDestination", p, d>>

Atoms ==
    {TaxiEmpty("taxi"), InTaxi("passenger", "taxi")}
        \cup {AtDestination("passenger", d) : d \in Destinations}

PickUpOperator ==
    [name |-> "PickUp",
     parameters |-> <<"?passenger", "?taxi", "?destination">>,
     preconditions |-> {AtDestination("?passenger", "?destination"), TaxiEmpty("?taxi")},
     add_effects |-> {InTaxi("?passenger", "?taxi")},
     delete_effects |-> {AtDestination("?passenger", "?destination"), TaxiEmpty("?taxi")}]

DropOffOperator ==
    [name |-> "DropOff",
     parameters |-> <<"?passenger", "?taxi", "?destination">>,
     preconditions |-> {InTaxi("?passenger", "?taxi")},
     add_effects |-> {AtDestination("?passenger", "?destination"), TaxiEmpty("?taxi")},
     delete_effects |-> {InTaxi("?passenger", "?taxi")}]

\* An operator without effects, one of the operators a caller may register.
WaitOperator ==
    [name |-> "Wait",
     parameters |-> <<"?taxi">>,
     preconditions |-> {},
     add_effects |-> {},
     delete_effects |-> {}]

operators == {PickUpOperator, DropOffOperator, WaitOperator}

(***************************************************************************)
(* Grounding: the lifted operator's atoms with the parameters substituted  *)
(* by the objects, in parameter order.                                     *)
(***************************************************************************)
Substitute(x, parameters, objects) ==
    IF \E i \in 1..Len(parameters) : parameters[i] = x
    THEN objects[CHOOSE i \in 1..Len(parameters) : parameters[i] = x]
    ELSE x

GroundAtoms(lifted_atoms, parameters, objects) ==
    {[i \in 1..Len(a) |-> IF i = 1 THEN a[i] ELSE Substitute(a[i], parameters, objects)]
        : a \in lifted_atoms}

\* LiftedOperator.ground: the ground operator keeps its parent and its objects.
Ground(lifted, objects) == [parent |-> lifted.name, parameters |-> objects]

Parent(ground_operator) == CHOOSE o \in operators : o.name = ground_operator.parent

\* GroundOperator.add_effects and GroundOperator.delete_effects.
add_effects(ground_operator) ==
    LET lifted == Parent(ground_operator)
    IN  GroundAtoms(lifted.add_effects, lifted.parameters, ground_operator.parameters)

delete_effects(ground_operator) ==
    LET lifted == Parent(ground_operator)
    IN  GroundAtoms(lifted.delete_effects, lifted.parameters, ground_operator.parameters)

GroundOperators ==
    {Ground(PickUpOperator, <<"passenger", "taxi", d>>) : d \in Destinations}
        \cup {Ground(DropOffOperator, <<"passenger", "taxi", d>>) : d \in Destinations}
        \cup {Ground(WaitOperator, <<"taxi">>)}

\* The ground operators the symbolic planner's plans are made of.
PlanOperators ==
    {Ground(PickUpOperator, <<"passenger", "taxi", "destA">>),
     Ground(DropOffOperator, <<"passenger", "taxi", "destA">>),
     Ground(DropOffOperator, <<"passenger", "taxi", "destB">>),
     Ground(WaitOperator, <<"taxi">>)}

\* None, for a ground operator slot and for a skill slot.
NoOperator == [parent |-> "None", parameters |-> <<>>]
NoSkill == "None"
NoOutcome == [kind |-> "None", plan |-> <<>>]
NoProblem == [objects |-> {}, atoms |-> {}, goal |-> {}, set |-> FALSE]

\* The names of the skill objects a caller may register, in a fixed order, and the
\* names of the lifted operators, in a fixed order.
SkillNames == <<"skill1", "skill2", "skill3">>
OperatorNames == <<"PickUp", "DropOff", "Wait">>
Index(seq, x) == CHOOSE i \in 1..Len(seq) : seq[i] = x

\* The registered skills: _skills is a set, skills maps each member to the lifted
\* operator its _get_lifted_operator returns.
SkillIds == DOMAIN skills
\* An observation shows a set of facts; NoObservation stands where none was passed.
Observations == [facts : SUBSET Atoms]
NoObservation == [facts |-> {}]
InitialObservation == [facts |-> {AtDestination("passenger", "destA"), TaxiEmpty("taxi")}]

\* Sequences over S of length at most n.
SeqUpTo(S, n) == UNION {[1..k -> S] : k \in 0..n}

(***************************************************************************)
(* structs.py: Skill and LiftedOperatorSkill.                              *)
(***************************************************************************)
\* The lifted operator a registered skill is bound to (_get_lifted_operator).
get_lifted_operator(s) == CHOOSE o \in operators : o.name = skills[s]

\* A can_execute that also refuses while the skill holds another ground operator.
can_executeWhenIdle(s, ground_operator) ==
    /\ ground_operator.parent = skills[s]
    /\ current_ground_operator[s] \in {NoOperator, ground_operator}

\* LiftedOperatorSkill.can_execute
can_execute(s, ground_operator) == ground_operator.parent = skills[s]

\* Skill.reset that asserts and records nothing.
SkillResetForgets(s, ground_operator) ==
    [ok |-> can_execute(s, ground_operator), recorded |-> current_ground_operator]

\* Skill.reset that records the operator before it asserts.
SkillResetRecordsFirst(s, ground_operator) ==
    [ok |-> can_execute(s, ground_operator),
     recorded |-> [current_ground_operator EXCEPT ![s] = ground_operator]]

\* Skill.reset: the recorded operators after the call, and whether the assert passed.
SkillReset(s, ground_operator) ==
    IF can_execute(s, ground_operator)
    THEN [ok |-> TRUE, recorded |-> [current_ground_operator EXCEPT ![s] = ground_operator]]
    ELSE [ok |-> FALSE, recorded |-> current_ground_operator]

\* LiftedOperatorSkill.get_action on the recorded operators `recorded`: the
\* object-parameterized policy applied to the recorded operator's parameters and obs.
NoAction == [skill |-> NoSkill, objects |-> <<>>, obs |-> NoObservation]

get_action(s, recorded, obs) ==
    IF recorded[s] = NoOperator
    THEN [ok |-> FALSE, action |-> NoAction]
    ELSE [ok |-> TRUE,
          action |-> [skill |-> s, objects |-> recorded[s].parameters, obs |-> obs]]

(***************************************************************************)
(* planning.py: TaskThenMotionPlanner.                                     *)
(***************************************************************************)
\* _get_skill_for_operator that stops at the first applicable skill.
ApplicableSkillsFirst(operator) ==
    LET all == {s \in SkillIds : can_execute(s, operator)}
    IN  IF all = {} THEN {} ELSE {CHOOSE s \in all : TRUE}

\* _get_skill_for_operator: the applicable skills.
ApplicableSkills(operator) == {s \in SkillIds : can_execute(s, operator)}

\* The test of step: the operator's effects hold in the atoms.
\* A termination test that asks for some add effect to be among the atoms.
TerminatedAnyAddEffect(operator, atoms) ==
    /\ add_effects(operator) \cap atoms # {}
    /\ delete_effects(operator) \cap atoms = {}

Terminated(operator, atoms) ==
    /\ add_effects(operator) \subseteq atoms
    /\ delete_effects(operator) \cap atoms = {}

\* The branch of step that takes the next operator: pop, find its skill.  A raise
\* leaves every assignment made before it in place.
PopAndDispatch(plan, skill) ==
    LET next_operator == Head(plan)
        applicable_skills == ApplicableSkills(next_operator)
    IN  IF applicable_skills = {}
        THEN [status |-> "NoSkillCanExecute", plan |-> Tail(plan),
              operator |-> next_operator, skill |-> skill, reset |-> NoSkill,
              advanced |-> TRUE]
        ELSE IF Cardinality(applicable_skills) # 1
        THEN [status |-> "AssertMultipleSkills", plan |-> Tail(plan),
              operator |-> next_operator, skill |-> skill, reset |-> NoSkill,
              advanced |-> TRUE]
        ELSE [status |-> "ok", plan |-> Tail(plan), operator |-> next_operator,
              skill |-> CHOOSE s \in applicable_skills : TRUE,
              reset |-> CHOOSE s \in applicable_skills : TRUE,
              advanced |-> TRUE]

\* The branch of step that keeps the operator: assert self._current_skill is not None.
KeepOperator(plan, operator, skill) ==
    IF skill = NoSkill
    THEN [status |-> "AssertSkillNotNone", plan |-> plan, operator |-> operator,
          skill |-> skill, reset |-> NoSkill, advanced |-> FALSE]
    ELSE [status |-> "ok", plan |-> plan, operator |-> operator, skill |-> skill,
          reset |-> NoSkill, advanced |-> FALSE]

\* A failure on an empty plan that also forgets the operator and the skill.
EmptyTaskPlanClearsCursor(plan, operator, skill) ==
    [status |-> "EmptyTaskPlan", plan |-> plan, operator |-> NoOperator,
     skill |-> NoSkill, reset |-> NoSkill, advanced |-> FALSE]

\* The failure of step on an empty plan.
EmptyTaskPlan(plan, operator, skill) ==
    [status |-> "EmptyTaskPlan", plan |-> plan, operator |-> operator,
     skill |-> skill, reset |-> NoSkill, advanced |-> FALSE]

\* step that goes on to the operator after the next when the atoms satisfy the
\* next one too.
StepCursorAdvancesTwice(plan, operator, skill, atoms) ==
    IF plan = <<>>
    THEN EmptyTaskPlan(plan, operator, skill)
    ELSE IF operator = NoOperator \/ Terminated(operator, atoms)
    THEN LET first == PopAndDispatch(plan, skill)
         IN  IF first.status = "ok" /\ first.plan # <<>>
                    /\ Terminated(first.operator, atoms)
             THEN PopAndDispatch(first.plan, first.skill)
             ELSE first
    ELSE KeepOperator(plan, operator, skill)

\* step that assigns the next operator and leaves it in the plan.
StepCursorPeeks(plan, operator, skill, atoms) ==
    IF plan = <<>>
    THEN EmptyTaskPlan(plan, operator, skill)
    ELSE IF operator = NoOperator \/ Terminated(operator, atoms)
    THEN [PopAndDispatch(plan, skill) EXCEPT !.plan = plan]
    ELSE KeepOperator(plan, operator, skill)

\* step without the test for an empty plan: pop(0) of an empty list raises.
StepCursorPopsEmpty(plan, operator, skill, atoms) ==
    IF operator = NoOperator \/ Terminated(operator, atoms)
    THEN IF plan = <<>>
         THEN [EmptyTaskPlan(plan, operator, skill) EXCEPT !.status = "IndexError"]
         ELSE PopAndDispatch(plan, skill)
    ELSE KeepOperator(plan, operator, skill)

\* step, up to the final get_action: the cursor after the call and how it ended.
StepCursor(plan, operator, skill, atoms) ==
    IF plan = <<>>
    THEN EmptyTaskPlan(plan, operator, skill)
    ELSE IF operator = NoOperator \/ Terminated(operator, atoms)
    THEN PopAndDispatch(plan, skill)
    ELSE KeepOperator(plan, operator, skill)

\* Perceiver.step of the model's perceiver: the facts the observation shows.
PerceiverStep(obs) == obs.facts

\* The whole of step(obs), where atoms is the value of perceiver.step(obs).
\* (Each intermediate value is bound once, by a quantifier over a singleton.)
StepCall(obs, atoms) ==
    \E c \in {StepCursor(current_task_plan, current_operator, current_skill, atoms)} :
    \E r \in {IF c.reset # NoSkill
             THEN SkillReset(c.reset, c.operator)
             ELSE [ok |-> TRUE, recorded |-> current_ground_operator]} :
    \E g \in {IF c.status = "ok" /\ r.ok
             THEN get_action(c.skill, r.recorded, obs)
             ELSE [ok |-> FALSE, action |-> NoAction]} :
    LET status == IF c.status # "ok" THEN c.status
                  ELSE IF ~r.ok THEN "AssertCanExecute"
                  ELSE IF ~g.ok THEN "AssertGroundOperatorNotNone"
                  ELSE "ok"
    IN  /\ current_task_plan' = c.plan
        /\ current_operator' = c.operator
        /\ current_skill' = c.skill
        /\ current_ground_operator' = r.recorded
        /\ activated' = IF c.advanced THEN Append(activated, c.operator) ELSE activated
        /\ result' = [call |-> "step", status |-> status, obs |-> obs, atoms |-> atoms,
                      action |-> g.action,
                      skill_resets |-> IF c.reset # NoSkill
                                        THEN {<<c.reset, c.operator>>} ELSE {},
                      get_actions |-> IF c.status = "ok" /\ r.ok THEN {c.skill} ELSE {},
                      planner_calls |-> 0, outcome |-> NoOutcome]
        /\ UNCHANGED <<skills, current_problem, stored_plan>>

\* Perceiver.reset of the model's perceiver: the problem read off the observation.
PerceiverReset(obs) ==
    [objects |-> {"taxi", "passenger"} \cup Destinations,
     atoms |-> obs.facts,
     goal |-> {AtDestination("passenger", "destB")},
     set |-> TRUE]

\* What the two external calls of reset can do: run_pddl_planner returns no plan
\* (None), parse_pddl_plan rejects the plan string, or a plan comes back.
PlannerOutcomes ==
    {[kind |-> "none", plan |-> <<>>], [kind |-> "unparseable", plan |-> <<>>]}
        \cup {[kind |-> "plan", plan |-> p] : p \in SeqUpTo(PlanOperators, MaxPlanLen)}

\* reset without the assert on the planner's answer: no plan is read as an empty one.
ResetStatusIgnoresNone(outcome) ==
    IF outcome.kind = "unparseable" THEN "ParsePlanError" ELSE "ok"

\* How reset ends for an outcome of the external calls.
ResetStatus(outcome) ==
    IF outcome.kind = "none" THEN "AssertPlanStrNotNone"
    ELSE IF outcome.kind = "unparseable" THEN "ParsePlanError"
    ELSE "ok"

\* The exception class a call that ended with `status` raised.
ExceptionClass(status) ==
    IF status = "ok" THEN "None"
    ELSE IF status \in {"EmptyTaskPlan", "NoSkillCanExecute"}
    THEN "TaskThenMotionPlanningFailure"
    ELSE IF status = "ParsePlanError" THEN "ParserError"
    ELSE "AssertionError"

\* reset that stores the plan and leaves the current operator and skill in place.
ResetCallKeepsOperator(problem, outcome) ==
    LET status == ResetStatus(outcome)
    IN  /\ current_problem' = problem
        /\ IF status = "ok"
           THEN /\ current_task_plan' = outcome.plan
                /\ stored_plan' = outcome.plan
                /\ activated' = <<>>
                /\ UNCHANGED <<current_operator, current_skill>>
           ELSE UNCHANGED <<current_task_plan, current_operator, current_skill,
                            stored_plan, activated>>
        /\ result' = [call |-> "reset", status |-> status, obs |-> NoObservation, atoms |-> {},
                      action |-> NoAction, skill_resets |-> {}, get_actions |-> {},
                      planner_calls |-> 1, outcome |-> outcome]
        /\ UNCHANGED <<skills, current_ground_operator>>

\* reset that clears the current operator and skill before it calls the planner.
ResetCallClearsFirst(problem, outcome) ==
    LET status == ResetStatus(outcome)
    IN  /\ current_problem' = problem
        /\ current_operator' = NoOperator
        /\ current_skill' = NoSkill
        /\ IF status = "ok"
           THEN /\ current_task_plan' = outcome.plan
                /\ stored_plan' = outcome.plan
                /\ activated' = <<>>
           ELSE UNCHANGED <<current_task_plan, stored_plan, activated>>
        /\ result' = [call |-> "reset", status |-> status, obs |-> NoObservation, atoms |-> {},
                      action |-> NoAction, skill_resets |-> {}, get_actions |-> {},
                      planner_calls |-> 1, outcome |-> outcome]
        /\ UNCHANGED <<skills, current_ground_operator>>

\* The whole of reset(obs).
\* problem is the PDDLProblem built from the value of perceiver.reset(obs).
ResetCall(problem, outcome) ==
    LET status == ResetStatus(outcome)
    IN  /\ current_problem' = problem
        /\ IF status = "ok"
           THEN /\ current_task_plan' = outcome.plan
                /\ current_operator' = NoOperator
                /\ current_skill' = NoSkill
                /\ stored_plan' = outcome.plan
                /\ activated' = <<>>
           ELSE UNCHANGED <<current_task_plan, current_operator, current_skill,
                            stored_plan, activated>>
        /\ result' = [call |-> "reset", status |-> status, obs |-> NoObservation, atoms |-> {},
                      action |-> NoAction, skill_resets |-> {}, get_actions |-> {},
                      planner_calls |-> 1, outcome |-> outcome]
        /\ UNCHANGED <<skills, current_ground_operator>>

NoTaxi == [pos |-> 0, pass |-> "None", queue |-> <<>>]

\* __init__: the cursor is empty; any binding of the skills to lifted operators.
Init ==
    /\ skills \in [{SkillNames[i] : i \in 1..Len(SkillNames)} -> {o.name : o \in operators}]
    /\ \A i, j \in 1..Len(SkillNames) :
          i <= j => Index(OperatorNames, skills[SkillNames[i]])
                        <= Index(OperatorNames, skills[SkillNames[j]])
    /\ current_problem = NoProblem
    /\ current_task_plan = <<>>
    /\ current_operator = NoOperator
    /\ current_skill = NoSkill
    /\ current_ground_operator = [s \in DOMAIN skills |-> NoOperator]
    /\ result = [call |-> "init", status |-> "ok", obs |-> NoObservation, atoms |-> {},
                 action |-> NoAction, skill_resets |-> {}, get_actions |-> {},
                 planner_calls |-> 0, outcome |-> NoOutcome]
    /\ stored_plan = <<>>
    /\ activated = <<>>
    /\ taxi = NoTaxi

Reset ==
    \E outcome \in PlannerOutcomes :
        /\ ResetCall(PerceiverReset(InitialObservation), outcome)
        /\ UNCHANGED taxi

Step ==
    \E obs \in Observations :
        /\ StepCall(obs, PerceiverStep(obs))
        /\ UNCHANGED taxi

Next == Reset \/ Step

Spec == Init /\ [][Next]_vars

(***************************************************************************)
(* Episodes whose plans are one operator longer than MaxPlanLen: the       *)
(* shortest on which an operator is held after a dispatch has failed.      *)
(***************************************************************************)
LongPlans == [1..(MaxPlanLen + 1) -> PlanOperators]

ResetLong ==
    \E plan \in LongPlans :
        /\ ResetCall(PerceiverReset(InitialObservation), [kind |-> "plan", plan |-> plan])
        /\ UNCHANGED taxi

NextLong == ResetLong \/ Step

SpecLong == Init /\ [][NextLong]_vars

(***************************************************************************)
(* The skills called directly, as tests/test_structs.py calls one: any     *)
(* registered skill is reset with any ground operator, or asked for an     *)
(* action on any observation, in any order.                                *)
(***************************************************************************)
SkillResetCall ==
    \E s \in SkillIds : \E ground_operator \in GroundOperators :
    \E r \in {SkillReset(s, ground_operator)} :
        /\ current_ground_operator' = r.recorded
        /\ result' = [call |-> "Skill.reset",
                      status |-> IF r.ok THEN "ok" ELSE "AssertCanExecute",
                      skill |-> s, operator |-> ground_operator,
                      previous |-> current_ground_operator[s],
                      obs |-> NoObservation, action |-> NoAction]
        /\ UNCHANGED <<skills, current_problem, current_task_plan, current_operator,
                       current_skill, stored_plan, activated, taxi>>

SkillGetActionCall ==
    \E s \in SkillIds : \E obs \in Observations :
    \E g \in {get_action(s, current_ground_operator, obs)} :
        /\ result' = [call |-> "Skill.get_action",
                      status |-> IF g.ok THEN "ok" ELSE "AssertGroundOperatorNotNone",
                      skill |-> s, operator |-> NoOperator,
                      previous |-> current_ground_operator[s],
                      obs |-> obs, action |-> g.action]
        /\ UNCHANGED <<skills, current_problem, current_task_plan, current_operator,
                       current_skill, current_ground_operator, stored_plan, activated,
                       taxi>>

NextSkill == SkillResetCall \/ SkillGetActionCall

SpecSkill == Init /\ [][NextSkill]_vars

(***************************************************************************)
(* The taxi episode of tests/test_planning.py, on a one-row grid without   *)
(* walls: columns 0..GridMax, the two destinations at distinct columns.    *)
(* taxi = [taxi_loc, pass_loc, dest_loc, locs, queue, phase, error]:       *)
(* pass_loc is the passenger's column or InTheTaxi, dest_loc the column of *)
(* the goal, locs the column of each destination object, queue the         *)
(* _action_queue of each TaxiSkill, phase the driver's position in the     *)
(* loop.                                                                   *)
(***************************************************************************)
InTheTaxi == 0 - 1
EAST == 2
WEST == 3
PICKUP == 4
DROPOFF == 5

\* _parse_taxi_obs: what the observation encodes.
TaxiObservation ==
    [taxi_loc |-> taxi.taxi_loc, pass_loc |-> taxi.pass_loc, dest_loc |-> taxi.dest_loc]

\* TaxiPerceiver._destinations read backwards: the destination object at a column.
DestinationAt(loc) == CHOOSE d \in Destinations : taxi.locs[d] = loc

\* TaxiPerceiver._parse_observation: (atoms, goal).
TaxiParseObservation(obs) ==
    [atoms |-> IF obs.pass_loc = InTheTaxi
               THEN {InTaxi("passenger", "taxi")}
               ELSE {TaxiEmpty("taxi"),
                     AtDestination("passenger", DestinationAt(obs.pass_loc))},
     goal |-> {AtDestination("passenger", DestinationAt(obs.dest_loc))}]

\* TaxiPerceiver.reset and TaxiPerceiver.step.
TaxiPerceiverReset(obs) ==
    [objects |-> {"taxi", "passenger"} \cup Destinations,
     atoms |-> TaxiParseObservation(obs).atoms,
     goal |-> TaxiParseObservation(obs).goal,
     set |-> TRUE]

TaxiPerceiverStep(obs) == TaxiParseObservation(obs).atoms

\* run_astar on the row: the moves from one column to another.
AstarActions(from, to) ==
    IF to >= from THEN [i \in 1..(to - from) |-> EAST] ELSE [i \in 1..(from - to) |-> WEST]

\* PickUpSkill._get_final_action and DropOffSkill._get_final_action.
FinalAction(s) == IF skills[s] = "PickUp" THEN PICKUP ELSE DROPOFF

\* TaxiSkill._get_action_given_objects on the queue `queue` of the skill:
\* the action, the queue left, and whether `assert actions` passed.
TaxiGetAction(s, queue, objects, obs) ==
    IF queue # <<>>
    THEN [ok |-> TRUE, action |-> Head(queue), queue |-> Tail(queue)]
    ELSE LET actions == AstarActions(obs.taxi_loc, taxi.locs[objects[3]])
             filled == Append(actions, FinalAction(s))
         IN  IF actions = <<>>
             THEN [ok |-> FALSE, action |-> 0, queue |-> queue]
             ELSE [ok |-> TRUE, action |-> Head(filled), queue |-> Tail(filled)]

\* env.step of Taxi-v3 on the row: the world after the action, and done.
EnvStep(world, action) ==
    IF action = EAST
    THEN [world EXCEPT !.taxi_loc = IF @ < GridMax THEN @ + 1 ELSE @]
    ELSE IF action = WEST
    THEN [world EXCEPT !.taxi_loc = IF @ > 0 THEN @ - 1 ELSE @]
    ELSE IF action = PICKUP
    THEN IF world.pass_loc = world.taxi_loc
         THEN [world EXCEPT !.pass_loc = InTheTaxi]
         ELSE world
    ELSE IF world.pass_loc = InTheTaxi /\ world.taxi_loc = world.dest_loc
    THEN [world EXCEPT !.pass_loc = world.taxi_loc, !.phase = "done"]
    ELSE IF world.pass_loc = InTheTaxi /\ \E d \in Destinations : world.locs[d] = world.taxi_loc
    THEN [world EXCEPT !.pass_loc = world.taxi_loc]
    ELSE world

\* The plan the symbolic planner returns for the episode.
TaxiPlan ==
    <<Ground(PickUpOperator, <<"passenger", "taxi", DestinationAt(taxi.pass_loc)>>),
      Ground(DropOffOperator, <<"passenger", "taxi", DestinationAt(taxi.dest_loc)>>)>>

\* skills = {PickUpSkill(), DropOffSkill()}; env.reset: the passenger waits at destA,
\* the goal is destB, the taxi starts at another column than the passenger.
InitTaxi ==
    /\ skills = [s \in {"skill1", "skill2"} |-> IF s = "skill1" THEN "PickUp" ELSE "DropOff"]
    /\ current_problem = NoProblem
    /\ current_task_plan = <<>>
    /\ current_operator = NoOperator
    /\ current_skill = NoSkill
    /\ current_ground_operator = [s \in DOMAIN skills |-> NoOperator]
    /\ result = [call |-> "init", status |-> "ok", obs |-> NoObservation, atoms |-> {},
                 action |-> NoAction, skill_resets |-> {}, get_actions |-> {},
                 planner_calls |-> 0, outcome |-> NoOutcome]
    /\ stored_plan = <<>>
    /\ activated = <<>>
    /\ \E a \in 0..GridMax, b \in 0..GridMax, t \in 0..GridMax :
          /\ a # b
          /\ t # a
          /\ taxi = [taxi_loc |-> t, pass_loc |-> a, dest_loc |-> b,
                     locs |-> [d \in Destinations |-> IF d = "destA" THEN a ELSE b],
                     queue |-> [s \in {"skill1", "skill2"} |-> <<>>],
                     phase |-> "new", error |-> "none"]

\* planner.reset(obs), once, before the loop.
TaxiReset ==
    /\ taxi.phase = "new"
    /\ ResetCall(TaxiPerceiverReset(TaxiObservation), [kind |-> "plan", plan |-> TaxiPlan])
    /\ taxi' = [taxi EXCEPT !.phase = "loop"]

\* One turn of the loop: action = planner.step(obs); obs, done = env.step(action).
\* A step that raises ends the loop; TaxiSkill.reset empties the skill's queue.
TaxiStep ==
    /\ taxi.phase = "loop"
    /\ \E obs \in {TaxiObservation} :
        /\ StepCall(obs, TaxiPerceiverStep(obs))
        /\ IF result'.status # "ok"
           THEN taxi' = [taxi EXCEPT !.phase = "raised"]
           ELSE \E s \in {result'.action.skill} :
                \E queue \in {IF <<s, current_operator'>> \in result'.skill_resets
                              THEN <<>> ELSE taxi.queue[s]} :
                \E a \in {TaxiGetAction(s, queue, result'.action.objects, obs)} :
                    IF a.ok
                    THEN taxi' = EnvStep([taxi EXCEPT !.queue[s] = a.queue], a.action)
                    ELSE taxi' = [taxi EXCEPT !.phase = "raised",
                                              !.error = "AssertActions"]

NextTaxi == TaxiReset \/ TaxiStep

SpecTaxi == InitTaxi /\ [][NextTaxi]_vars

(***************************************************************************)
(* Claims.                                                                 *)
(***************************************************************************)
\* The cursor of the planner.
cursor == <<current_task_plan, current_operator, current_skill>>

\* The last call was a step (in the state the formula is read in).
StepReturned == result.call = "step"

\* C1: in the taxi episode (plan [PickUp(passenger,taxi,destA),
\* DropOff(passenger,taxi,destB)], reset once, then one step per timestep) no step
\* raises before the goal holds; PickUp's skill acts while PickUp is active, and once
\* InTaxi(passenger,taxi) is perceived DropOff is active and DropOff's skill supplies
\* the action of that step and of every later one.
C1_DrivingLoop ==
    /\ taxi.phase # "raised"
    /\ (StepReturned /\ current_operator.parent = "PickUp")
          => result.action.skill = "skill1"
    /\ (StepReturned /\ InTaxi("passenger", "taxi") \in result.atoms)
          => /\ current_operator = Ground(DropOffOperator, <<"passenger", "taxi", "destB">>)
             /\ result.action.skill = "skill2"

\* C2: a step raises "Empty task plan" only when the remaining plan is empty and no
\* operator is active; with the plan empty and an operator active whose effects are
\* not satisfied, the step returns the active skill's get_action(observation).
C2_EmptyPlanOnlyWithoutOperator ==
    [][result'.call = "step" =>
        /\ result'.status = "EmptyTaskPlan"
              => (current_task_plan = <<>> /\ current_operator = NoOperator)
        /\ (/\ current_task_plan = <<>>
            /\ current_operator # NoOperator
            /\ current_skill # NoSkill
            /\ ~Terminated(current_operator, result'.atoms))
              => /\ result'.status = "ok"
                 /\ result'.action =
                        get_action(current_skill, current_ground_operator, result'.obs).action
      ]_vars

\* C3: a step made while an operator is active and its effects are not satisfied in
\* the perceived atoms leaves the cursor unchanged, resets no skill and returns the
\* active skill's get_action(observation), for every operator, the last included.
C3_HoldingAnOperator ==
    [][(/\ result'.call = "step"
        /\ current_operator # NoOperator
        /\ current_skill # NoSkill
        /\ ~Terminated(current_operator, result'.atoms))
          => /\ UNCHANGED cursor
             /\ result'.skill_resets = {}
             /\ result'.status = "ok"
             /\ result'.action =
                    get_action(current_skill, current_ground_operator, result'.obs).action
      ]_vars

\* C4: a step removes at most one operator from the remaining plan, the front one,
\* and removes it whenever the plan is not empty and no operator is active or the
\* active operator's effects hold in the atoms, also when the operator it activates
\* is itself already satisfied by the same atoms.
C4_OneAdvancePerStep ==
    [][result'.call = "step" =>
        /\ \/ current_task_plan' = current_task_plan
           \/ (current_task_plan # <<>> /\ current_task_plan' = Tail(current_task_plan))
        /\ (/\ current_task_plan # <<>>
            /\ (current_operator = NoOperator
                  \/ Terminated(current_operator, result'.atoms)))
              => /\ current_task_plan' = Tail(current_task_plan)
                 /\ current_operator' = Head(current_task_plan)
      ]_vars

\* A step has just activated an operator that the same atoms already satisfy, and
\* operators remain in the plan behind it.
C4_Witness ==
    /\ StepReturned
    /\ result.status = "ok"
    /\ result.skill_resets # {}
    /\ Terminated(current_operator, result.atoms)
    /\ current_task_plan # <<>>

\* C5: after every successful reset, whatever the cursor was, the remaining plan is
\* the plan the symbolic planner returned and the active operator and skill are
\* unset; they stay so until the next step, and that step activates the first
\* operator of the new plan.
C5_ResetClearsCursor ==
    [][/\ (result'.call = "reset" /\ result'.status = "ok")
            => /\ current_task_plan' = result'.outcome.plan
               /\ current_operator' = NoOperator
               /\ current_skill' = NoSkill
       /\ (/\ current_operator = NoOperator
           /\ current_skill = NoSkill
           /\ result'.call # "step"
           /\ result'.status # "ok")
            => UNCHANGED cursor
       /\ (/\ current_operator = NoOperator
           /\ result'.call = "step"
           /\ stored_plan # <<>>)
            => /\ current_operator' = Head(stored_plan)
               /\ current_task_plan' = Tail(stored_plan)
      ]_vars

\* The first step after a reset made in the middle of an episode: the first operator
\* of the new plan is active, and another skill still remembers the operator it
\* executed before that reset.
C5_Witness ==
    /\ StepReturned
    /\ result.status = "ok"
    /\ activated = <<Head(stored_plan)>>
    /\ current_operator = Head(stored_plan)
    /\ \E s \in SkillIds \ {current_skill} : current_ground_operator[s] # NoOperator

\* C6: when a step pops a ground operator G: if exactly one registered skill can
\* execute G, that skill is the active skill after the call, it has been reset with
\* G and the step returns its get_action(observation); if none can, the step fails
\* with the no-skill failure; if several can, it fails with the failure for
\* multiple skills.  (The formula quantifies over every binding of the registered
\* skills; the order in which a Python set iterates is not part of the state.)
C6_SkillDispatch ==
    [][(result'.call = "step" /\ current_task_plan' # current_task_plan) =>
        LET G == Head(current_task_plan)
            accepting == {s \in SkillIds : skills[s] = G.parent}
        IN  /\ Cardinality(accepting) = 1
                  => /\ current_skill' \in accepting
                     /\ result'.skill_resets = {<<current_skill', G>>}
                     /\ current_ground_operator'[current_skill'] = G
                     /\ result'.status = "ok"
                     /\ result'.get_actions = {current_skill'}
                     /\ result'.action = [skill |-> current_skill',
                                          objects |-> G.parameters,
                                          obs |-> result'.obs]
            /\ accepting = {} => result'.status = "NoSkillCanExecute"
            /\ Cardinality(accepting) > 1 => result'.status = "AssertMultipleSkills"
      ]_vars

\* A step has popped an operator that exactly one of the two skills accepts, after
\* that skill had executed another operator.
C6_Witness ==
    /\ StepReturned
    /\ result.status = "ok"
    /\ result.skill_resets = {<<current_skill, current_operator>>}
    /\ Len(activated) = 2
    /\ activated[1] # activated[2]
    /\ activated[1].parent = activated[2].parent

\* Several registered skills accept the ground operator.
Ambiguous(ground_operator) ==
    Cardinality({s \in SkillIds : skills[s] = ground_operator.parent}) > 1

\* C7: with two skills that accept the same ground operator (and no operator of the
\* plan left without a skill), construction and reset succeed, every step made while
\* that operator is still in the remaining plan and that does not pop it succeeds,
\* and the step that pops it fails with the failure for multiple skills.
C7_LazyAmbiguityDetection ==
    [][/\ (result'.call = "reset" /\ result'.outcome.kind = "plan")
            => result'.status = "ok"
       /\ (result'.call = "step" /\ current_task_plan' # current_task_plan)
            => (Ambiguous(Head(current_task_plan))
                    <=> result'.status = "AssertMultipleSkills")
       /\ (/\ result'.call = "step"
           /\ \A i \in 1..Len(stored_plan) :
                 \E s \in SkillIds : skills[s] = stored_plan[i].parent
           /\ \A i \in 1..Len(activated) : ~Ambiguous(activated[i])
           /\ \E i \in 1..Len(current_task_plan) : Ambiguous(current_task_plan[i])
           /\ ~(current_task_plan' # current_task_plan
                    /\ Ambiguous(Head(current_task_plan))))
            => result'.status = "ok"
      ]_vars

\* The second operator of the plan is the one two skills accept: the step that
\* popped it failed, after the first operator had been executed.
C7_Witness ==
    /\ StepReturned
    /\ result.status = "AssertMultipleSkills"
    /\ Len(activated) = 2
    /\ ~Ambiguous(activated[1])
    /\ current_skill # NoSkill

\* C8: with the remaining plan empty and no operator active (after a reset whose
\* plan was empty, or before any reset) a step fails with "Empty task plan", a
\* TaskThenMotionPlanningFailure, calls no skill and leaves the cursor alone.
C8_EmptyPlanFails ==
    [][(/\ result'.call = "step"
        /\ current_task_plan = <<>>
        /\ current_operator = NoOperator)
          => /\ result'.status = "EmptyTaskPlan"
             /\ ExceptionClass(result'.status) = "TaskThenMotionPlanningFailure"
             /\ result'.skill_resets = {}
             /\ result'.get_actions = {}
             /\ UNCHANGED cursor
      ]_vars

\* A step has failed on the empty plan a reset stored, a skill having acted in an
\* earlier episode.
C8_Witness ==
    /\ StepReturned
    /\ result.status = "EmptyTaskPlan"
    /\ current_operator = NoOperator
    /\ current_problem.set
    /\ stored_plan = <<>>
    /\ \E s \in SkillIds : current_ground_operator[s] # NoOperator

C10_PlanConsumedInOrder ==
    /\ activated \o current_task_plan = stored_plan
    /\ StepReturned => result.planner_calls = 0
    /\ current_operator = IF activated = <<>> THEN NoOperator
                          ELSE activated[Len(activated)]

\* A whole plan of two operators has been consumed.
C10_Witness ==
    /\ Len(activated) = 2
    /\ current_task_plan = <<>>
    /\ StepReturned
    /\ result.status = "ok"

\* C11: in every reachable state, so after any resets and get_action calls the
\* planner has made, can_execute of a registered skill answers true for a ground
\* operator exactly when the operator's parent is the lifted operator the skill is
\* bound to (true for every grounding of it, false for every grounding of another
\* one), and an operator the skill accepted at an earlier reset is still accepted.
C11_CanExecuteIffParent ==
    \A s \in SkillIds :
        /\ \A g \in GroundOperators :
              can_execute(s, g) <=> (Parent(g) = get_lifted_operator(s))
        /\ current_ground_operator[s] # NoOperator
              => can_execute(s, current_ground_operator[s])

\* A skill that holds one grounding of its operator after a get_action still accepts
\* another grounding of it and still refuses a grounding of another operator.
C11_Witness ==
    /\ StepReturned
    /\ result.status = "ok"
    /\ \E g1, g2 \in GroundOperators :
          /\ current_ground_operator[current_skill] \notin {NoOperator, g1}
          /\ Parent(g1) = get_lifted_operator(current_skill)
          /\ can_execute(current_skill, g1)
          /\ Parent(g2) # get_lifted_operator(current_skill)
          /\ ~can_execute(current_skill, g2)

\* C12: a direct Skill.reset with a ground operator succeeds and records it exactly
\* when the operator's parent is the skill's lifted operator, and otherwise fails
\* and leaves the skill's recorded operator as it was; get_action changes no record,
\* fails while the skill has no recorded operator, and otherwise returns the policy's
\* action for the parameters, in order, of the operator recorded by the skill's
\* latest successful reset and for the observation passed.
C12_ResetThenGetAction ==
    [][/\ result'.call = "Skill.reset" =>
            IF result'.operator.parent = skills[result'.skill]
            THEN /\ result'.status = "ok"
                 /\ current_ground_operator' =
                        [current_ground_operator EXCEPT ![result'.skill] = result'.operator]
            ELSE /\ result'.status = "AssertCanExecute"
                 /\ current_ground_operator' = current_ground_operator
       /\ result'.call = "Skill.get_action" =>
            /\ current_ground_operator' = current_ground_operator
            /\ IF current_ground_operator[result'.skill] = NoOperator
               THEN result'.status = "AssertGroundOperatorNotNone"
               ELSE /\ result'.status = "ok"
                    /\ result'.action =
                          [skill |-> result'.skill,
                           objects |-> current_ground_operator[result'.skill].parameters,
                           obs |-> result'.obs]]_vars

\* A successful reset has replaced a different ground operator the skill held, and
\* another skill still has none.
C12_Witness ==
    /\ result.call = "Skill.reset"
    /\ result.status = "ok"
    /\ result.previous \notin {NoOperator, result.operator}
    /\ current_ground_operator[result.skill] = result.operator
    /\ \E s \in SkillIds : current_ground_operator[s] = NoOperator

\* C13: in every reachable state, also after a step or reset that failed, the
\* planner holds a skill exactly when it holds an operator; the skill it holds
\* accepts that operator and was last reset with it; and a get_action is only ever
\* requested from the skill that holds the active operator.
C13_SingleOwner ==
    /\ (current_skill # NoSkill) <=> (current_operator # NoOperator)
    /\ current_skill # NoSkill =>
          /\ skills[current_skill] = current_operator.parent
          /\ current_ground_operator[current_skill] = current_operator
    /\ StepReturned =>
          \A s \in result.get_actions :
              /\ s = current_skill
              /\ current_ground_operator[s] = current_operator

\* C14: a step that activates an operator and dispatches it resets the owning
\* skill exactly once, with that operator, in that same step; a step that activates
\* nothing resets no skill; and every get_action is requested from the held skill
\* while the operator that skill was last reset with is the active operator.
C14_ResetOncePerActivation ==
    [][result'.call = "step" =>
          /\ (activated' # activated /\ result'.status = "ok")
                => result'.skill_resets = {<<current_skill', current_operator'>>}
          /\ activated' = activated => result'.skill_resets = {}
          /\ \A s \in result'.get_actions :
                /\ s = current_skill'
                /\ current_ground_operator'[s] = current_operator']_vars

C16_FailedResetKeepsCursor ==
    [][(result'.call = "reset" /\ result'.status # "ok")
          => UNCHANGED <<current_task_plan, current_operator, current_skill,
                         current_ground_operator, stored_plan>>]_vars

\* A reset has failed on an unparseable plan in the middle of an episode: an
\* operator and a skill are active and operators remain in the plan.
C16_Witness ==
    /\ result.call = "reset"
    /\ result.outcome.kind = "unparseable"
    /\ result.status # "ok"
    /\ current_operator # NoOperator
    /\ current_skill # NoSkill
    /\ current_task_plan # <<>>

\* C17: when the active operator has no add effect and no delete effect, the next
\* step, whatever atoms it perceives, fails on the empty plan if no operator
\* remains and otherwise pops the next operator; it never asks the held skill for a
\* second action for that operator.
C17_EmptyEffectsOneAction ==
    [][(/\ result'.call = "step"
        /\ current_operator # NoOperator
        /\ add_effects(current_operator) = {}
        /\ delete_effects(current_operator) = {})
          => IF current_task_plan = <<>>
             THEN /\ result'.status = "EmptyTaskPlan"
                  /\ result'.get_actions = {}
             ELSE /\ current_task_plan' = Tail(current_task_plan)
                  /\ current_operator' = Head(current_task_plan)
                  /\ activated' = Append(activated, Head(current_task_plan))
                  /\ result'.get_actions # {} => result'.skill_resets # {}]_vars

\* An operator without effects was activated, and the next step, perceiving atoms,
\* has gone on to the operator after it, one with effects.
C17_Witness ==
    /\ StepReturned
    /\ result.status = "ok"
    /\ result.atoms # {}
    /\ Len(activated) = 2
    /\ add_effects(activated[1]) = {}
    /\ delete_effects(activated[1]) = {}
    /\ add_effects(activated[2]) # {}

====
